---- MODULE Spec2Model ----
(***************************************************************************)
(* Model of fvhiot/database/influxdb.py: the two formatters               *)
(* (create_influxdb_line, create_influxdb_dict) and write_data, driven by  *)
(* a caller of the shape of main(): resolve the connection parameters,     *)
(* format one point, then hand the returned payload to write_data.         *)
(*                                                                         *)
(* Representation                                                          *)
(*  - a Python dict is the sequence of its <<key, value>> items in         *)
(*    insertion order (keys are distinct);                                 *)
(*  - a Python value is a record [t, n, s]: t is the type name, n the      *)
(*    number (an int, or a float counted in tenths), s the text of a str;  *)
(*  - an Optional argument is a record with a flag `none`;                 *)
(*  - a datetime is [wall, micro, off]: its wall-clock reading in seconds  *)
(*    since 1970-01-01T00:00:00 of its own zone, its microsecond, and the  *)
(*    UTC offset of its zone in seconds;                                   *)
(*  - an IEEE-754 double holding a time is kept exactly, as integers       *)
(*    (see Timestamp and MulE9);                                           *)
(*  - a formatted string is the sequence of the pieces the f-strings and   *)
(*    joins put side by side; Text gives the string itself.                *)
(***************************************************************************)
EXTENDS Integers, Sequences, FiniteSets, TLC

VARIABLES
    dev_id,            \* argument dev_id
    measurement_name,  \* argument measurement_name
    fields,            \* the caller's fields dict (mutable object)
    tags,              \* the caller's tags: None or a dict (mutable object)
    timestamp,         \* argument timestamp: None or a datetime
    given,             \* the arguments as the caller first built them
    now,               \* the system clock, as last read
    INFLUXDB_BUCKET,   \* the bucket get_influxdb_args gave
    INFLUXDB_ORG,      \* the org get_influxdb_args gave
    ret,               \* what the last formatter call gave the caller
    writes,            \* the write calls the database client has received
    handles,           \* the write handles the client has given out
    wd                 \* the last write_data invocation and how it ended

vars == <<dev_id, measurement_name, fields, tags, timestamp, given, now,
          INFLUXDB_BUCKET, INFLUXDB_ORG, ret, writes, handles, wd>>

---------------------------------------------------------------------------
\* Bounds of the model.

\* how many half seconds the system clock advances in a run
MaxTicks == 1
\* how many times the caller invokes write_data in a run
MaxWrites == 1

---------------------------------------------------------------------------
\* Python values.

PyInt(n) == [t |-> "int", n |-> n, s |-> ""]
PyFloat(tenths) == [t |-> "float", n |-> tenths, s |-> ""]
PyStr(s) == [t |-> "str", n |-> 0, s |-> s]

\* float(v) on a str: the texts the model's callers use.
\* float("7") is 7.0; float("abc") raises ValueError.
ParseFloat(s) ==
    CASE s = "7" -> [ok |-> TRUE, val |-> PyFloat(70)]
      [] s = "42" -> [ok |-> TRUE, val |-> PyFloat(420)]
      [] OTHER -> [ok |-> FALSE, val |-> PyStr(s)]

\* a float() that lets a str that is no number through
FloatOf_Lenient(v) ==
    CASE v.t = "int" -> [ok |-> TRUE, val |-> PyFloat(v.n * 10)]
      [] v.t = "float" -> [ok |-> TRUE, val |-> v]
      [] OTHER -> [ok |-> TRUE, val |-> IF ParseFloat(v.s).ok
                                        THEN ParseFloat(v.s).val ELSE v]

\* float(v)
FloatOf(v) ==
    CASE v.t = "int" -> [ok |-> TRUE, val |-> PyFloat(v.n * 10)]
      [] v.t = "float" -> [ok |-> TRUE, val |-> v]
      [] OTHER -> ParseFloat(v.s)

\* repr of a float with one decimal digit: 42.0, 42.5, -0.5
FloatRepr(tenths) ==
    LET a == IF tenths < 0 THEN -tenths ELSE tenths
    IN (IF tenths < 0 THEN "-" ELSE "")
        \o ToString(a \div 10) \o "." \o ToString(a % 10)

\* f"{v}": the default text of a value
Format(v) ==
    CASE v.t = "int" -> ToString(v.n)
      [] v.t = "float" -> FloatRepr(v.n)
      [] OTHER -> v.s

---------------------------------------------------------------------------
\* Python str ordering: by code point, a proper prefix first.

CodePoints(s) ==
    CASE s = "app" -> <<97, 112, 112>>
      [] s = "dev-id" -> <<100, 101, 118, 45, 105, 100>>
      [] s = "loc" -> <<108, 111, 99>>
      [] s = "hum" -> <<104, 117, 109>>
      [] s = "temp" -> <<116, 101, 109, 112>>
      [] OTHER -> <<>>

RECURSIVE LexLess(_, _)
LexLess(a, b) ==
    IF b = <<>> THEN FALSE
    ELSE IF a = <<>> THEN TRUE
    ELSE IF Head(a) # Head(b) THEN Head(a) < Head(b)
    ELSE LexLess(Tail(a), Tail(b))

StrLess(a, b) == LexLess(CodePoints(a), CodePoints(b))

\* (k1, v1) < (k2, v2) for the items of one dict: the keys differ, so the
\* first components decide.
ItemLess(x, y) == StrLess(x[1], y[1])

RECURSIVE Insert(_, _)
Insert(x, sorted) ==
    IF sorted = <<>> THEN <<x>>
    ELSE IF ItemLess(x, Head(sorted)) THEN <<x>> \o sorted
    ELSE <<Head(sorted)>> \o Insert(x, Tail(sorted))

\* the items left in insertion order
Sorted_Unsorted(items) == items

\* sorted(list(d.items()))
RECURSIVE Sorted(_)
Sorted(items) ==
    IF items = <<>> THEN <<>>
    ELSE Insert(Head(items), Sorted(Tail(items)))

---------------------------------------------------------------------------
\* dict operations.

DictKeys(dct) == {dct[i][1] : i \in DOMAIN dct}

\* d.setdefault(k, v): an existing key keeps its value
DictUpdate_KeepExisting(dct, k, v) ==
    IF k \in DictKeys(dct) THEN dct ELSE Append(dct, <<k, v>>)

\* d = {k: v}: the other entries are dropped
DictUpdate_Replace(dct, k, v) == <<<<k, v>>>>

\* an item list that takes the pair at its end whether or not the key is there
DictUpdate_AppendAlways(dct, k, v) == Append(dct, <<k, v>>)

\* d.update({k: v}): an existing key keeps its place and takes the value,
\* a new key goes last.
DictUpdate(dct, k, v) ==
    IF k \in DictKeys(dct)
    THEN [i \in DOMAIN dct |-> IF dct[i][1] = k THEN <<k, v>> ELSE dct[i]]
    ELSE Append(dct, <<k, v>>)

\* for k, v in fields.items(): fields[k] = float(v)
\* The loop runs in insertion order and stops at the first value float()
\* rejects; the values before it are already replaced.
RECURSIVE CoerceFrom(_, _)
CoerceFrom(dct, i) ==
    IF i > Len(dct) THEN [ok |-> TRUE, dct |-> dct]
    ELSE LET f == FloatOf(dct[i][2])
         IN IF f.ok
            THEN CoerceFrom([dct EXCEPT ![i] = <<dct[i][1], f.val>>], i + 1)
            ELSE [ok |-> FALSE, dct |-> dct]

\* the loop left out: the values stay as supplied
CoerceFields_Skip(dct) == [ok |-> TRUE, dct |-> dct]

CoerceFields(dct) == CoerceFrom(dct, 1)

\* ",".join([f"{i[0]}={i[1]}" for i in items]) with tag values (str)
RECURSIVE JoinTags(_)
JoinTags(items) ==
    IF items = <<>> THEN <<>>
    ELSE <<Head(items)[1], "=", Head(items)[2]>>
         \o (IF Tail(items) = <<>> THEN <<>> ELSE <<",">> \o JoinTags(Tail(items)))

\* ",".join([f"{i[0]}={i[1]}" for i in items]) with field values
RECURSIVE JoinFields(_)
JoinFields(items) ==
    IF items = <<>> THEN <<>>
    ELSE <<Head(items)[1], "=", Format(Head(items)[2])>>
         \o (IF Tail(items) = <<>> THEN <<>> ELSE <<",">> \o JoinFields(Tail(items)))

\* the string a sequence of pieces stands for
RECURSIVE Text(_)
Text(toks) == IF toks = <<>> THEN "" ELSE Head(toks) \o Text(Tail(toks))

---------------------------------------------------------------------------
\* Time.

\* n / d rounded to the nearest integer, a tie to the even one
\* (the rounding of every IEEE-754 operation)
RoundHalfEven(n, d) ==
    LET q == n \div d
        r == n % d
    IN IF 2 * r > d \/ (2 * r = d /\ q % 2 = 1) THEN q + 1 ELSE q

\* n in decimal, zero-padded to w digits
RECURSIVE Pad(_, _)
Pad(n, w) ==
    IF w <= 1 THEN ToString(n)
    ELSE IF n < 10 ^ (w - 1) THEN "0" \o Pad(n, w - 1)
    ELSE ToString(n)

\* The double nearest to sec + micro / 10^6, for 2^30 <= sec < 2^31 (the
\* years 2004 to 2038).  Such a double has 53 significant bits, the lowest
\* worth 2^-22 s: it is sec + m22 / 2^22 with
\* m22 = round(micro * 2^22 / 10^6) = round(micro * 65536 / 15625).
\* micro = 15625 * q + r splits the product so that it stays below 2^31.
DoubleOfMicros(sec, micro) ==
    LET q == micro \div 15625
        r == micro % 15625
    IN [sec |-> sec, m22 |-> q * 65536 + RoundHalfEven(r * 65536, 15625)]

\* timestamp.astimezone(ZoneInfo("UTC")): the same instant, read in UTC
Astimezone(ts) ==
    [none |-> FALSE, wall |-> ts.wall - ts.off, micro |-> ts.micro, off |-> 0]

\* datetime.timestamp() of an aware datetime:
\* (self - epoch).total_seconds(), microseconds / 10^6 as a double
Timestamp(ts) == DoubleOfMicros(ts.wall - ts.off, ts.micro)

\* time.time(): the clock as a double (the clock reads whole half seconds,
\* which the conversion keeps exactly)
TimeTime(clock) == DoubleOfMicros(clock.sec, clock.micro)

\* datetime.datetime.now(ZoneInfo("UTC"))
DatetimeNowUtc(clock) ==
    [none |-> FALSE, wall |-> clock.sec, micro |-> clock.micro, off |-> 0]

\* x * 10**9 in double arithmetic, then int(): 10**9 converts exactly, and
\* the product of x = sec + m22 / 2^22 is sec * 10^9 + m22 * 5^9 / 2^13,
\* rounded to a double.  For 2^60 <= sec * 10^9 < 2^61 the lowest bit of the
\* result is worth 256, and sec * 10^9 is a multiple of 512, so the result
\* is sec * 10^9 + 256 * round(m22 * 5^9 / 2^21) with the tie going to the
\* even quotient.  5^9 = 953 * 2^11 + 1381 and m22 = f1 * 2^11 + f0 split
\* the product so that every intermediate stays below 2^31.  The result
\* is an integer already, so int() keeps it.
MulE9(x) ==
    LET f1 == x.m22 \div 2048
        f0 == x.m22 % 2048
        mid == f1 * 1381 + f0 * 953
        low == (mid % 1024) * 2048 + f0 * 1381
        quo == 2 * f1 * 953 + mid \div 1024 + low \div 2097152
        rem == low % 2097152
        rnd == IF 2 * rem > 2097152 \/ (2 * rem = 2097152 /\ quo % 2 = 1)
               THEN quo + 1 ELSE quo
    IN [sec |-> x.sec, nanos |-> 256 * rnd]

\* f"{time_int}": the decimal text of sec * 10^9 + nanos
IntText(t) == ToString(t.sec) \o Pad(t.nanos, 9)

\* The proleptic Gregorian date of a day count since 1970-01-01
\* (datetime keeps year, month, day; the model keeps the count).
CivilFromDays(days) ==
    LET z == days + 719468
        era == z \div 146097
        doe == z - era * 146097
        yoe == (doe - doe \div 1460 + doe \div 36524 - doe \div 146096) \div 365
        doy == doe - (365 * yoe + yoe \div 4 - yoe \div 100)
        mp == (5 * doy + 2) \div 153
        m == IF mp < 10 THEN mp + 3 ELSE mp - 9
    IN [year |-> yoe + era * 400 + (IF m <= 2 THEN 1 ELSE 0),
        month |-> m,
        day |-> doy - (153 * mp + 2) \div 5 + 1]

\* datetime.isoformat(): YYYY-MM-DDTHH:MM:SS[.ffffff]+HH:MM
Isoformat(ts) ==
    LET date == CivilFromDays(ts.wall \div 86400)
        sod == ts.wall % 86400
        a == IF ts.off < 0 THEN -ts.off ELSE ts.off
    IN Pad(date.year, 4) \o "-" \o Pad(date.month, 2) \o "-" \o Pad(date.day, 2)
        \o "T" \o Pad(sod \div 3600, 2) \o ":" \o Pad((sod % 3600) \div 60, 2)
        \o ":" \o Pad(sod % 60, 2)
        \o (IF ts.micro = 0 THEN "" ELSE "." \o Pad(ts.micro, 6))
        \o (IF ts.off < 0 THEN "-" ELSE "+")
        \o Pad(a \div 3600, 2) \o ":" \o Pad((a % 3600) \div 60, 2)

---------------------------------------------------------------------------
\* The formatters.  Each gives what the caller sees after the call: whether
\* it returned (ok) or raised, the value returned, and the caller's two
\* dict objects.  A caller that passed tags = None keeps None: dev-id goes
\* into a dict of the call's own.

NoRecord == [measurement |-> "", tags |-> <<>>, fields |-> <<>>, time |-> ""]

create_influxdb_line(dev, mname, flds, tgs, ts, clock) ==
    LET time_int == IF ts.none THEN MulE9(TimeTime(clock))
                    ELSE MulE9(Timestamp(Astimezone(ts)))
        tags1 == DictUpdate(IF tgs.none THEN <<>> ELSE tgs.items, "dev-id", dev)
        tag_str == JoinTags(Sorted(tags1))
        co == CoerceFields(flds)
        field_str == JoinFields(Sorted(co.dct))
    IN [ok |-> co.ok,
        line |-> IF co.ok
                 THEN <<mname, ",">> \o tag_str \o <<" ">> \o field_str
                      \o <<" ", IntText(time_int)>>
                 ELSE <<>>,
        fields |-> co.dct,
        tags |-> IF tgs.none THEN tgs ELSE [none |-> FALSE, items |-> tags1]]

\* a create_influxdb_dict that coerces the fields as create_influxdb_line does
create_influxdb_dict_Coercing(dev, mname, flds, tgs, ts, clock) ==
    LET utc == IF ts.none THEN DatetimeNowUtc(clock) ELSE Astimezone(ts)
        tags1 == DictUpdate(IF tgs.none THEN <<>> ELSE tgs.items, "dev-id", dev)
        co == CoerceFields(flds)
    IN [ok |-> TRUE,
        rec |-> [measurement |-> mname, tags |-> tags1, fields |-> co.dct,
                 time |-> Isoformat(utc)],
        fields |-> co.dct,
        tags |-> IF tgs.none THEN tgs ELSE [none |-> FALSE, items |-> tags1]]

create_influxdb_dict(dev, mname, flds, tgs, ts, clock) ==
    LET utc == IF ts.none THEN DatetimeNowUtc(clock) ELSE Astimezone(ts)
        tags1 == DictUpdate(IF tgs.none THEN <<>> ELSE tgs.items, "dev-id", dev)
    IN [ok |-> TRUE,
        rec |-> [measurement |-> mname, tags |-> tags1, fields |-> flds,
                 time |-> Isoformat(utc)],
        fields |-> flds,
        tags |-> IF tgs.none THEN tgs ELSE [none |-> FALSE, items |-> tags1]]

\* a write_data that writes a second time when the first write raises, and
\* reports success
write_data_Retry(client, bucket, org, data_obj, ok) ==
    LET w == [bucket |-> bucket, org |-> org, data |-> data_obj,
              write_options |-> "SYNCHRONOUS", ok |-> ok]
        h == [write_options |-> "SYNCHRONOUS", closed |-> TRUE]
    IN [client |-> [writes |-> IF ok THEN Append(client.writes, w)
                               ELSE client.writes \o <<w, [w EXCEPT !.ok = TRUE]>>,
                    handles |-> Append(client.handles, h)],
        status |-> "returned"]

\* write_data on a client whose write either succeeds (ok) or raises.
\* The client is [writes, handles]; the result is the client afterwards
\* and how write_data ended.
write_data(client, bucket, org, data_obj, ok) ==
    LET write_api == [write_options |-> "SYNCHRONOUS", closed |-> FALSE]
        written == Append(client.writes,
                          [bucket |-> bucket, org |-> org, data |-> data_obj,
                           write_options |-> write_api.write_options, ok |-> ok])
    IN IF ok
       THEN [client |-> [writes |-> written,
                         handles |-> Append(client.handles,
                                            [write_api EXCEPT !.closed = TRUE])],
             status |-> "returned"]
       ELSE [client |-> [writes |-> written,
                         handles |-> Append(client.handles, write_api)],
             status |-> "raised"]

---------------------------------------------------------------------------
\* The arguments a caller may build.

DevIds == {"1234", "9999"}
MeasurementNames == {"test"}
FieldKeys == {"hum", "temp"}
\* temp: an int, a float, a numeric str or a str that is no number;
\* hum: a float or a str that is no number
FieldItems ==
    {<<"temp", v>> : v \in {PyInt(42), PyFloat(425), PyStr("7"), PyStr("abc")}}
    \cup {<<"hum", v>> : v \in {PyFloat(45), PyStr("n/a")}}
\* tags a caller may supply, a dev-id of its own among them
TagItems == {<<"app", "foo">>, <<"loc", "bar">>, <<"dev-id", "1234">>}
TagKeys == {"app", "loc", "dev-id"}

\* every dict over the items: each order of insertion, no key twice
Dicts(items, keys) ==
    {s \in UNION {[1..n -> items] : n \in 0..Cardinality(keys)} :
        \A i, j \in DOMAIN s : i # j => s[i][1] # s[j][1]}

NoTimestamp == [none |-> TRUE, wall |-> 0, micro |-> 0, off |-> 0]
\* 2021-05-01T00:00:00+00:00
T_Utc == [none |-> FALSE, wall |-> 1619827200, micro |-> 0, off |-> 0]
\* 2021-05-01T03:00:00+03:00, the same instant
T_East == [none |-> FALSE, wall |-> 1619838000, micro |-> 0, off |-> 10800]
\* 2021-04-30T19:00:00.250000-05:00, a quarter of a second later
T_West == [none |-> FALSE, wall |-> 1619809200, micro |-> 250000, off |-> -18000]
Timestamps == {NoTimestamp, T_Utc, T_East, T_West}

\* the clock when the run starts: 2021-05-01T12:00:00Z
ClockStart == [sec |-> 1619870400, micro |-> 0]
\* the clock half a second later
ClockAfter(clock) ==
    IF clock.micro = 0 THEN [sec |-> clock.sec, micro |-> 500000]
    ELSE [sec |-> clock.sec + 1, micro |-> 0]
Ticks(clock) ==
    2 * (clock.sec - ClockStart.sec) + (IF clock.micro = 0 THEN 0 ELSE 1)
\* what the clock may read when it was `clock` at the last reading: time
\* never runs backwards
Readings(clock) ==
    {clock} \cup (IF Ticks(clock) < MaxTicks THEN {ClockAfter(clock)} ELSE {})

\* the connection parameters get_influxdb_args hands on
Buckets == {"AapoTest", "iot"}
Orgs == {"fvh"}

NoReturn == [kind |-> "none", line |-> <<>>, rec |-> NoRecord]
NoCall == [status |-> "none", data |-> NoReturn]

---------------------------------------------------------------------------
\* The state machine.

Init ==
    /\ dev_id \in DevIds
    /\ measurement_name \in MeasurementNames
    /\ fields \in Dicts(FieldItems, FieldKeys)
    /\ \E t \in Dicts(TagItems, TagKeys) :
          tags \in {[none |-> TRUE, items |-> <<>>], [none |-> FALSE, items |-> t]}
    /\ timestamp \in Timestamps
    /\ given = [dev_id |-> dev_id, measurement_name |-> measurement_name,
                fields |-> fields, tags |-> tags, timestamp |-> timestamp]
    /\ now = ClockStart
    /\ INFLUXDB_BUCKET \in Buckets
    /\ INFLUXDB_ORG \in Orgs
    /\ ret = NoReturn
    /\ writes = <<>>
    /\ handles = <<>>
    /\ wd = NoCall

\* the caller calls create_influxdb_line on its arguments, before it writes;
\* the call reads the clock when there is no timestamp
CreateInfluxdbLine ==
    /\ wd.status = "none"
    /\ \E clock \in (IF timestamp.none THEN Readings(now) ELSE {now}) :
        LET r == create_influxdb_line(dev_id, measurement_name, fields, tags,
                                      timestamp, clock)
        IN /\ now' = clock
           /\ fields' = r.fields
           /\ tags' = r.tags
           /\ ret' = IF r.ok
                     THEN [kind |-> "line", line |-> r.line, rec |-> NoRecord]
                     ELSE [kind |-> "error", line |-> <<>>, rec |-> NoRecord]
           /\ UNCHANGED <<dev_id, measurement_name, timestamp, given,
                          INFLUXDB_BUCKET, INFLUXDB_ORG, writes, handles, wd>>

\* the caller calls create_influxdb_dict on its arguments, before it writes;
\* the call reads the clock when there is no timestamp
CreateInfluxdbDict ==
    /\ wd.status = "none"
    /\ \E clock \in (IF timestamp.none THEN Readings(now) ELSE {now}) :
        LET r == create_influxdb_dict(dev_id, measurement_name, fields, tags,
                                      timestamp, clock)
        IN /\ now' = clock
           /\ fields' = r.fields
           /\ tags' = r.tags
           /\ ret' = [kind |-> "dict", line |-> <<>>, rec |-> r.rec]
           /\ UNCHANGED <<dev_id, measurement_name, timestamp, given,
                          INFLUXDB_BUCKET, INFLUXDB_ORG, writes, handles, wd>>

\* the caller hands the payload a formatter returned to write_data, as
\* main() does; a formatter that raised left it nothing to hand over
WriteData ==
    /\ ret.kind \in {"line", "dict"}
    /\ Len(handles) < MaxWrites
    /\ \E ok \in BOOLEAN :
          LET r == write_data([writes |-> writes, handles |-> handles],
                              INFLUXDB_BUCKET, INFLUXDB_ORG, ret, ok)
          IN /\ writes' = r.client.writes
             /\ handles' = r.client.handles
             /\ wd' = [status |-> r.status, data |-> ret]
    /\ UNCHANGED <<dev_id, measurement_name, fields, tags, timestamp, given,
                   now, INFLUXDB_BUCKET, INFLUXDB_ORG, ret>>

Next ==
    \/ CreateInfluxdbLine
    \/ CreateInfluxdbDict
    \/ WriteData

Spec == Init /\ [][Next]_vars

---------------------------------------------------------------------------
\* Reading a formatted line back:
\*   measurement "," tags " " fields " " time

\* the places of the two separating spaces
Spaces(line) == {i \in DOMAIN line : line[i] = " "}
FirstSpace(line) == CHOOSE i \in Spaces(line) : \A j \in Spaces(line) : i <= j
LastSpace(line) == CHOOSE i \in Spaces(line) : \A j \in Spaces(line) : j <= i

TagSegment(line) == SubSeq(line, 3, FirstSpace(line) - 1)
FieldSegment(line) == SubSeq(line, FirstSpace(line) + 1, LastSpace(line) - 1)
TimeOf(line) == line[Len(line)]

\* the <<key, value>> pairs of a segment k=v,k=v,...
SegItems(seg) ==
    [i \in 1..((Len(seg) + 1) \div 4) |-> <<seg[4 * i - 3], seg[4 * i - 1]>>]

\* the place of a key in Python's order of the keys in use:
\* "app" < "dev-id" < "hum" < "loc" < "temp"
KeyRank(k) ==
    CASE k = "app" -> 1 [] k = "dev-id" -> 2 [] k = "hum" -> 3
      [] k = "loc" -> 4 [] k = "temp" -> 5 [] OTHER -> 0

Ascending(items) ==
    \A i, j \in DOMAIN items : i < j => KeyRank(items[i][1]) < KeyRank(items[j][1])

\* every order of insertion of the same items
Reorderings(dct) ==
    {[i \in DOMAIN dct |-> dct[p[i]]] : p \in Permutations(DOMAIN dct)}
TagReorderings(tgs) ==
    IF tgs.none THEN {tgs}
    ELSE {[none |-> FALSE, items |-> t] : t \in Reorderings(tgs.items)}

\* a value float() rejects
NonNumeric(v) == v.t = "str" /\ v.s \in {"abc", "n/a"}
HasNonNumeric(dct) == \E i \in DOMAIN dct : NonNumeric(dct[i][2])

\* the dev-id entries among a list of items
DevIdEntries(items) == {i \in DOMAIN items : items[i][1] = "dev-id"}
OneDevId(items, dev) ==
    /\ Cardinality(DevIdEntries(items)) = 1
    /\ \A i \in DevIdEntries(items) : items[i][2] = dev

\* `after` is `before` with dev-id set to dev and every other entry as it was
DevIdInjected(before, after, dev) ==
    /\ OneDevId(after, dev)
    /\ Cardinality(DictKeys(after)) = Len(after)
    /\ DictKeys(after) = DictKeys(before) \cup {"dev-id"}
    /\ \A i \in DOMAIN before :
          before[i][1] # "dev-id" => \E j \in DOMAIN after : after[j] = before[i]

\* the isoformat of the UTC reading of each timestamp in use, and of the
\* clock's readings
ExpectedIso(ts, clock) ==
    CASE ts = T_Utc -> "2021-05-01T00:00:00+00:00"
      [] ts = T_East -> "2021-05-01T00:00:00+00:00"
      [] ts = T_West -> "2021-05-01T00:00:00.250000+00:00"
      [] ts.none /\ Ticks(clock) = 0 -> "2021-05-01T12:00:00+00:00"
      [] ts.none /\ Ticks(clock) = 1 -> "2021-05-01T12:00:00.500000+00:00"
      [] ts.none /\ Ticks(clock) = 2 -> "2021-05-01T12:00:01+00:00"
      [] ts.none /\ Ticks(clock) = 3 -> "2021-05-01T12:00:01.500000+00:00"
      [] OTHER -> "?"

\* floor(T.unix_seconds * 10^9) of a timestamp, in exact arithmetic
ExactEpochNs(ts) == ToString(ts.wall - ts.off) \o Pad(ts.micro * 1000, 9)

FormatterCall == CreateInfluxdbLine \/ CreateInfluxdbDict

---------------------------------------------------------------------------
\* The claims.

\* C1: whenever write_data has finished, by returning or by raising, the
\* write handle it acquired is closed.
C1_HandleReleased ==
    wd.status # "none" => handles[Len(handles)].closed

\* C2: the output of either formatter holds the dev-id tag exactly once, with
\* the dev_id argument as its value, whatever tags the caller supplied.
C2_DevIdTag ==
    /\ ret.kind = "line" => OneDevId(SegItems(TagSegment(ret.line)), dev_id)
    /\ ret.kind = "dict" => OneDevId(ret.rec.tags, dev_id)

\* a record returned for a caller whose own dev-id tag differs from dev_id
C2_Witness ==
    /\ ret.kind = "dict"
    /\ ~given.tags.none
    /\ \E i \in DOMAIN given.tags.items :
          given.tags.items[i] = <<"dev-id", "1234">>
    /\ dev_id = "9999"

\* C3: with a timestamp given, the line lists its tags and its fields in
\* ascending key order, and every order of insertion of the caller's fields
\* and tags gives the same line.
C3_SortInvariance ==
    (ret.kind = "line" /\ ~timestamp.none) =>
        /\ Ascending(SegItems(TagSegment(ret.line)))
        /\ Ascending(SegItems(FieldSegment(ret.line)))
        /\ \A f \in Reorderings(given.fields), t \in TagReorderings(given.tags) :
              create_influxdb_line(dev_id, measurement_name, f, t, timestamp,
                                   now).line = ret.line

\* a line made from fields inserted as temp, hum and tags as loc, dev-id, app
C3_Witness ==
    /\ ret.kind = "line"
    /\ ~timestamp.none
    /\ Len(given.fields) = 2
    /\ given.fields[1][1] = "temp"
    /\ ~given.tags.none
    /\ Len(given.tags.items) = 3
    /\ given.tags.items[1][1] = "loc"
    /\ given.tags.items[3][1] = "app"

\* C4 as stated: no write reaches the client for a point one of whose field
\* values is no number.
C4_NoWriteOfNonNumeric ==
    HasNonNumeric(given.fields) => writes = <<>>

\* C4 as amended: for a point one of whose field values is no number,
\* create_influxdb_line never returns a line, and no line reaches the client.
C4_LineAbortsBeforeWrite ==
    HasNonNumeric(given.fields) =>
        /\ ret.kind # "line"
        /\ \A i \in DOMAIN writes : writes[i].data.kind # "line"

\* create_influxdb_line has raised on such a point
C4_Witness ==
    /\ HasNonNumeric(given.fields)
    /\ ret.kind = "error"

\* C5: the integer that ends the line is floor(T.unix_seconds * 10^9) of the
\* timestamp given.
C5_EpochNsExact ==
    (ret.kind = "line" /\ ~timestamp.none) =>
        TimeOf(ret.line) = ExactEpochNs(timestamp)

\* C6: every field value of the line is the text of a float, and the fields
\* {"temp": 42} give the field segment temp=42.0.
C6_FieldsAsFloat ==
    ret.kind = "line" =>
        /\ \A i \in DOMAIN SegItems(FieldSegment(ret.line)) :
              SegItems(FieldSegment(ret.line))[i][2] \in {"42.0", "42.5", "7.0", "4.5"}
        /\ given.fields = <<<<"temp", PyInt(42)>>>> =>
              Text(FieldSegment(ret.line)) = "temp=42.0"

\* a line made from the fields {"temp": 42}
C6_Witness ==
    /\ ret.kind = "line"
    /\ given.fields = <<<<"temp", PyInt(42)>>>>

\* C7: create_influxdb_dict returns a record with the keys measurement, tags,
\* fields and time: the measurement name, the tags with dev-id injected, the
\* fields exactly as passed, and the isoformat text of the timestamp in UTC.
C7_DictRecord ==
    [][CreateInfluxdbDict =>
        /\ ret'.kind = "dict"
        /\ DOMAIN ret'.rec = {"measurement", "tags", "fields", "time"}
        /\ ret'.rec.measurement = measurement_name
        /\ DevIdInjected(IF tags.none THEN <<>> ELSE tags.items, ret'.rec.tags,
                         dev_id)
        /\ ret'.rec.fields = fields
        /\ ret'.rec.time = ExpectedIso(timestamp, now')]_vars

\* a record made from an int field and a timestamp of another zone
C7_Witness ==
    /\ ret.kind = "dict"
    /\ timestamp = T_East
    /\ \E i \in DOMAIN fields : fields[i][2] = PyInt(42)
    /\ ret.rec.fields = given.fields

\* C8: every invocation of write_data makes one write call, synchronous, with
\* the bucket, org and payload it was given; it raises exactly when that
\* write failed.
C8_OneSyncWrite ==
    /\ Len(writes) = Len(handles)
    /\ wd.status # "none" =>
          LET w == writes[Len(writes)]
          IN /\ w.bucket = INFLUXDB_BUCKET
             /\ w.org = INFLUXDB_ORG
             /\ w.data = wd.data
             /\ w.write_options = "SYNCHRONOUS"
             /\ wd.status = (IF w.ok THEN "returned" ELSE "raised")

\* a write_data whose write failed
C8_Witness ==
    /\ wd.status = "raised"
    /\ ~writes[Len(writes)].ok

C10_LineIdempotent ==
    [][(CreateInfluxdbLine /\ ret.kind = "line" /\ ~timestamp.none) =>
        /\ ret'.kind = "line"
        /\ ret'.line = ret.line
        /\ fields' = fields
        /\ tags' = tags]_vars

\* the state a first call leaves (fields made floats, dev-id added), from
\* which the call is made again
C10_Witness ==
    /\ ret.kind = "line"
    /\ ~timestamp.none
    /\ fields # given.fields
    /\ ~tags.none
    /\ tags # given.tags

====
